---- MODULE Spec2Model ----
\* Endpoint invocation pipelines of jkratz55/endpoint-go: the server pipeline
\* (Server.ServeHTTP), the default server error handler, the response writer
\* decorator and the client pipeline (Client.Endpoint).
EXTENDS Integers, Sequences, FiniteSets, TLC

VARIABLES sconf, server, cconf, client, active, writer, traced

vars == <<sconf, server, cconf, client, active, writer, traced>>

\* ---------------------------------------------------------------------------
\* Bounds and input domains
\* ---------------------------------------------------------------------------

\* longest violation list a validator returns in the model
MaxViolations == 2

\* the calls in flight on one Server or one client Endpoint; Init chooses in
\* active which of them are made, on the server and on the client
CallIds == {1, 2}

Reqs == {"r1", "r2"}

Resps == {"p1", "p2"}

Paths == {"/orders"}

ViolationValues ==
    { [Field |-> "name", Message |-> "required"],
      [Field |-> "age", Message |-> "too small"] }

RECURSIVE SeqsUpTo(_, _)
SeqsUpTo(S, n) ==
    IF n = 0 THEN { <<>> }
    ELSE LET shorter == SeqsUpTo(S, n - 1)
         IN  shorter \cup { Append(s, x) : s \in { t \in shorter : Len(t) = n - 1 }, x \in S }

ViolationLists == SeqsUpTo(ViolationValues, MaxViolations)

\* ---------------------------------------------------------------------------
\* Errors. An error value is the chain of its leaves, outermost first; the
\* nil error is the empty chain.
\* ---------------------------------------------------------------------------

ErrDecodeRequest == "ErrDecodeRequest"
ErrEncodeRequest == "ErrEncodeRequest"
ErrEncodeResponse == "ErrEncodeResponse"
ErrDecodeResponse == "ErrDecodeResponse"

Sentinels == { ErrDecodeRequest, ErrEncodeRequest, ErrEncodeResponse, ErrDecodeResponse }

NoErr == <<>>

\* fmt.Errorf("%w: %w", sentinel, err)
Wrap(sentinel, err) == <<sentinel>> \o err

\* errors.Is(err, target)
Is(err, target) == \E i \in DOMAIN err : err[i] = target

LeafMsg(leaf) ==
    CASE leaf = ErrDecodeRequest -> "decode request"
      [] leaf = ErrEncodeRequest -> "encode request"
      [] leaf = ErrEncodeResponse -> "encode response"
      [] leaf = ErrDecodeResponse -> "decode response"
      [] OTHER -> leaf

\* err.Error(): the leaves' messages joined by ": "
ErrorString(err) ==
    [ i \in 1..(2 * Len(err) - 1) |->
        IF i % 2 = 1 THEN LeafMsg(err[(i + 1) \div 2]) ELSE ": " ]

\* errors the request decoder can return
DecodeCauses == { <<"unexpected EOF">>, <<"bad content type">> }

\* errors the business endpoint can return: opaque domain errors, and errors
\* that already carry a sentinel (an endpoint that proxies to a client endpoint,
\* or that re-raises a decode failure of its own)
BusinessErrs ==
    { <<"not found">>,
      <<ErrDecodeResponse, "invalid character">>,
      <<ErrDecodeRequest, "nested payload">> }

\* errors the response encoder can return
EncodeCauses == { <<"unsupported type">>, <<"broken pipe">> }

\* ---------------------------------------------------------------------------
\* The response sink (http.ResponseWriter supplied by the transport) and the
\* response writer decorator
\* ---------------------------------------------------------------------------

NewSink == [ headerCalls |-> <<>>, status |-> 0, contentType |-> "", writes |-> <<>> ]

\* the sink sends the status line on the first WriteHeader; later calls are
\* received but change nothing that was sent
SinkWriteHeader(sink, statusCode) ==
    [ sink EXCEPT !.headerCalls = Append(@, statusCode),
                  !.status = IF @ = 0 THEN statusCode ELSE @ ]

\* a Write before any WriteHeader sends the status line 200 first
SinkWrite(sink, bytes) ==
    [ sink EXCEPT !.status = IF @ = 0 THEN 200 ELSE @,
                  !.writes = Append(@, bytes) ]

SinkSetContentType(sink, value) == [ sink EXCEPT !.contentType = value ]

\* the transport completes a response the handler never started with 200
SinkFinish(sink) == [ sink EXCEPT !.status = IF @ = 0 THEN 200 ELSE @ ]

NoDecorator == [ present |-> FALSE, code |-> 0, written |-> 0 ]

\* rw := &responseWriter{w: w, code: 200, written: 0}
NewResponseWriter == [ present |-> TRUE, code |-> 200, written |-> 0 ]

\* A writer w, as the stages see it: the sink, behind the decorator if one was
\* installed.
rwHeaderSet(w, value) == [ w EXCEPT !.sink = SinkSetContentType(@, value) ]

\* n, err := r.w.Write(bytes); r.written += int64(n)
rwWriteN(w, bytes, n) ==
    [ w EXCEPT !.sink = SinkWrite(@, bytes),
               !.rw.written = @ + n ]

\* a Write the sink takes whole
rwWrite(w, bytes) == rwWriteN(w, bytes, Len(bytes))

\* WriteHeader on a value receiver: the code is set on a copy and lost
rwWriteHeaderValueReceiver(w, statusCode) ==
    [ w EXCEPT !.sink = SinkWriteHeader(@, statusCode) ]

rwWriteHeader(w, statusCode) ==
    [ w EXCEPT !.rw.code = statusCode,
               !.sink = SinkWriteHeader(@, statusCode) ]

\* the optional capabilities of a sink
Capabilities == { "Hijacker", "Flusher", "Pusher" }

\* http.ErrNotSupported
ErrNotSupported == <<"feature not supported">>

ErrHijackNotSupported ==
    <<"hijacking not supported: wrapped ResponseWriter does not implement http.Hijacker">>

\* Hijack, Flush and Push on a decorator whose sink has the capabilities caps:
\* whether the call went on to the sink, and the error the caller gets back
\* (sinkErr is what the sink's own Hijack or Push returns)
rwHijack(caps, sinkErr) ==
    IF "Hijacker" \in caps
    THEN [ forwarded |-> TRUE, err |-> sinkErr ]
    ELSE [ forwarded |-> FALSE, err |-> ErrHijackNotSupported ]

rwFlush(caps) ==
    IF "Flusher" \in caps
    THEN [ forwarded |-> TRUE, err |-> NoErr ]
    ELSE [ forwarded |-> FALSE, err |-> NoErr ]

\* a Push that asserts the capability without testing it
rwPushUnchecked(caps, sinkErr) == [ forwarded |-> TRUE, err |-> sinkErr ]

rwPush(caps, sinkErr) ==
    IF "Pusher" \in caps
    THEN [ forwarded |-> TRUE, err |-> sinkErr ]
    ELSE [ forwarded |-> FALSE, err |-> ErrNotSupported ]

\* a decorator over a sink with the capabilities caps, the calls made on it
\* (history), and the capability calls that reached the sink (capCalls)
NewWriter(caps) ==
    [ w |-> [ sink |-> NewSink, rw |-> NewResponseWriter ],
      caps |-> caps, history |-> <<>>, capCalls |-> <<>> ]

IdleWriter == NewWriter({})

HeaderSet(w, value) ==
    IF w.rw.present THEN rwHeaderSet(w, value)
    ELSE [ w EXCEPT !.sink = SinkSetContentType(@, value) ]

Write(w, bytes) ==
    IF w.rw.present THEN rwWrite(w, bytes)
    ELSE [ w EXCEPT !.sink = SinkWrite(@, bytes) ]

WriteHeader(w, statusCode) ==
    IF w.rw.present THEN rwWriteHeader(w, statusCode)
    ELSE [ w EXCEPT !.sink = SinkWriteHeader(@, statusCode) ]

\* ---------------------------------------------------------------------------
\* JSON encoding of the values the pipeline writes
\* ---------------------------------------------------------------------------

\* ValidationViolation marshals under its json tags
JSONViolation(v) == [ field |-> v.Field, message |-> v.Message ]

JSONViolations(vs) == [ i \in DOMAIN vs |-> JSONViolation(vs[i]) ]

\* ErrorResponse marshals under its json tags
JSONErrorResponse(e) ==
    [ statusCode |-> e.Status, message |-> e.Message, path |-> e.Path,
      details |-> e.Details, timestamp |-> e.Timestamp ]

\* json.NewEncoder(w).Encode(v): one Write of the document and a newline
JSONEncode(w, doc) == Write(w, <<doc, "\n">>)

\* time.Now().Unix()
Now == "now"

\* ---------------------------------------------------------------------------
\* Server pipeline
\* ---------------------------------------------------------------------------

ServerHooks ==
    { "BeforeDecodeRequest", "RequestDecoded", "BeforeValidation",
      "RequestValidated", "AfterEndpoint", "Finalizer" }

Encoders == { "EncodeJSONResponse", "custom" }

ErrorHandlers == { "default", "custom" }

\* NewServer with its options applied
\* the business endpoint: one with outcomes of its own, or the passthrough that
\* returns its request
Endpoints == { "business", "identity" }

ServerConfigs ==
    [ hooks : SUBSET ServerHooks, validator : BOOLEAN, endpoint : Endpoints,
      encoder : Encoders, errorHandler : ErrorHandlers ]

IdleServerCall ==
    [ pc |-> "idle", ctx |-> "none", path |-> "", req |-> "none",
      response |-> "none", encoded |-> "none",
      w |-> [ sink |-> NewSink, rw |-> NoDecorator ],
      log |-> <<>>, handlerArgs |-> <<>>, finalizerArgs |-> <<>>,
      decErr |-> NoErr, epErr |-> NoErr, encErr |-> NoErr,
      validated |-> FALSE, ok |-> TRUE, violations |-> <<>> ]

\* a pipeline that leaves its hooks uncalled
HookedNeverCalled(name, log) == log

\* the hook slot is checked for nil before it is called
Hooked(name, log) == IF name \in sconf.hooks THEN Append(log, name) ELSE log

\* a handler that takes the encode sentinel for the decode sentinel
defaultServerErrorHandlerWrongSentinel(w, err) ==
    IF Is(err, ErrEncodeResponse)
    THEN JSONEncode(
             WriteHeader(HeaderSet(w, "application/json"), 400),
             JSONErrorResponse(
                 [ Status |-> 400, Message |-> "Bad Request", Path |-> "",
                   Details |-> <<"Server was unable to parse or unmarshall the request">>,
                   Timestamp |-> Now ]))
    ELSE JSONEncode(
             WriteHeader(HeaderSet(w, "application/json"), 500),
             JSONErrorResponse(
                 [ Status |-> 500, Message |-> "Internal Server Error", Path |-> "",
                   Details |-> ErrorString(err),
                   Timestamp |-> Now ]))

defaultServerErrorHandler(w, err) ==
    IF Is(err, ErrDecodeRequest)
    THEN JSONEncode(
             WriteHeader(HeaderSet(w, "application/json"), 400),
             JSONErrorResponse(
                 [ Status |-> 400, Message |-> "Bad Request", Path |-> "",
                   Details |-> <<"Server was unable to parse or unmarshall the request">>,
                   Timestamp |-> Now ]))
    ELSE JSONEncode(
             WriteHeader(HeaderSet(w, "application/json"), 500),
             JSONErrorResponse(
                 [ Status |-> 500, Message |-> "Internal Server Error", Path |-> "",
                   Details |-> ErrorString(err),
                   Timestamp |-> Now ]))

\* a handler installed with WithServerErrorHandler: it answers every error
\* with one plain 503
customErrorHandler(w, err) ==
    Write(WriteHeader(w, 503), <<"unavailable">>)

errorHandler(w, err) ==
    IF sconf.errorHandler = "default"
    THEN defaultServerErrorHandler(w, err)
    ELSE customErrorHandler(w, err)

\* EncodeJSONResponse: header and status first, then the document; a value
\* that does not marshal leaves nothing more written
EncodeJSONResponse(w, data, err) ==
    LET started == WriteHeader(HeaderSet(w, "application/json"), 200)
    IN  IF err = NoErr THEN JSONEncode(started, data) ELSE started

\* an encoder supplied by the integrator: it writes the body without an
\* explicit status, and writes nothing when it fails
customEncoder(w, data, err) ==
    IF err = NoErr THEN Write(w, <<data>>) ELSE w

encoder(w, data, err) ==
    IF sconf.encoder = "EncodeJSONResponse"
    THEN EncodeJSONResponse(w, data, err)
    ELSE customEncoder(w, data, err)

\* the decoder's error handed over without its sentinel
decodeErrUnwrapped(err) == err

\* decodeErr := fmt.Errorf("%w: %w", ErrDecodeRequest, err)
decodeErr(err) == Wrap(ErrDecodeRequest, err)

\* the encoder's error wrapped in the decode sentinel
encodeErrAsDecode(err) == Wrap(ErrDecodeRequest, err)

\* fmt.Errorf("%w: %w", ErrEncodeResponse, err)
encodeErr(err) == Wrap(ErrEncodeResponse, err)

\* the endpoint's error wrapped like an encoder's
endpointErrWrapped(err) == Wrap(ErrEncodeResponse, err)

\* the endpoint's error is handed over as it is
endpointErr(err) == err

\* s.errorHandler(ctx, w, err)
CallErrorHandler(s, err) ==
    [ s EXCEPT !.w = errorHandler(s.w, err),
               !.log = Append(@, "errorHandler"),
               !.handlerArgs = Append(@, err),
               !.pc = "return" ]

\* ServeHTTP entry: ctx := r.Context(); the decorator and the deferred
\* Finalizer are set up when the hook is registered
ServeHTTP(c) ==
    /\ c \in active.server
    /\ server[c].pc = "idle"
    /\ \E p \in Paths :
         server' = [ server EXCEPT ![c] =
                       [ IdleServerCall EXCEPT
                           !.pc = "beforeDecode",
                           !.ctx = "request",
                           !.path = p,
                           !.w.rw = IF "Finalizer" \in sconf.hooks
                                    THEN NewResponseWriter ELSE NoDecorator ] ]
    /\ UNCHANGED <<sconf, cconf, client, active, writer, traced>>

BeforeDecodeRequest(c) ==
    /\ server[c].pc = "beforeDecode"
    /\ server' = [ server EXCEPT ![c] =
                     [ @ EXCEPT !.pc = "decode",
                                !.ctx = IF "BeforeDecodeRequest" \in sconf.hooks
                                        THEN "derived" ELSE @,
                                !.log = Hooked("BeforeDecodeRequest", @) ] ]
    /\ UNCHANGED <<sconf, cconf, client, active, writer, traced>>

DecodeRequest(c) ==
    /\ server[c].pc = "decode"
    /\ \/ \E r \in Reqs :
            server' = [ server EXCEPT ![c] =
                          [ @ EXCEPT !.pc = "requestDecoded",
                                     !.req = r,
                                     !.log = Append(@, "decoder") ] ]
       \/ \E e \in DecodeCauses :
            server' = [ server EXCEPT ![c] =
                          CallErrorHandler(
                              [ @ EXCEPT !.decErr = e, !.log = Append(@, "decoder") ],
                              decodeErr(e)) ]
    /\ UNCHANGED <<sconf, cconf, client, active, writer, traced>>

RequestDecoded(c) ==
    /\ server[c].pc = "requestDecoded"
    /\ server' = [ server EXCEPT ![c] =
                     [ @ EXCEPT !.pc = "validate",
                                !.log = Hooked("RequestDecoded", @) ] ]
    /\ UNCHANGED <<sconf, cconf, client, active, writer, traced>>

\* a rejection answered without its violations
WriteValidationFailureNoDetails(w, path, violations) ==
    JSONEncode(
        WriteHeader(HeaderSet(w, "application/json"), 400),
        JSONErrorResponse(
            [ Status |-> 400, Message |-> "Bad Request", Path |-> path,
              Details |-> <<>>, Timestamp |-> Now ]))

\* the 400 the pipeline writes itself when the validator rejects
WriteValidationFailure(w, path, violations) ==
    JSONEncode(
        WriteHeader(HeaderSet(w, "application/json"), 400),
        JSONErrorResponse(
            [ Status |-> 400, Message |-> "Bad Request", Path |-> path,
              Details |-> JSONViolations(violations), Timestamp |-> Now ]))

\* a pipeline that calls the validation hooks although no validator is set
SkipValidationHooksCalled(s) ==
    [ s EXCEPT !.pc = "invoke",
               !.log = Hooked("RequestValidated", Hooked("BeforeValidation", @)) ]

\* if s.validator != nil { ... } with no validator set: nothing runs
SkipValidation(s) == [ s EXCEPT !.pc = "invoke" ]

Validate(c) ==
    /\ server[c].pc = "validate"
    /\ IF ~sconf.validator
       THEN server' = [ server EXCEPT ![c] = SkipValidation(@) ]
       ELSE \E ok \in BOOLEAN :
            \E vs \in (IF ok THEN { <<>> } ELSE ViolationLists) :
              LET s == server[c]
                  log1 == Hooked("BeforeValidation", s.log)
                  log2 == Append(log1, "validator")
                  log3 == Hooked("RequestValidated", log2)
              IN  server' = [ server EXCEPT ![c] =
                    [ s EXCEPT
                        !.validated = TRUE,
                        !.ok = ok,
                        !.violations = vs,
                        !.log = log3,
                        !.w = IF ok THEN @ ELSE WriteValidationFailure(@, s.path, vs),
                        !.pc = IF ok THEN "invoke" ELSE "return" ] ]
    /\ UNCHANGED <<sconf, cconf, client, active, writer, traced>>

\* the values s.endpoint(ctx, req) returns without an error
EndpointResponses(req) ==
    IF sconf.endpoint = "identity" THEN { req } ELSE Resps

\* the errors s.endpoint(ctx, req) returns
EndpointErrs ==
    IF sconf.endpoint = "identity" THEN {} ELSE BusinessErrs

\* a pipeline that hands the encoder the zero value of the response type
EncoderArgZero(s) == "none"

\* s.encoder(ctx, w, response)
EncoderArg(s) == s.response

InvokeEndpoint(c) ==
    /\ server[c].pc = "invoke"
    /\ \/ \E p \in EndpointResponses(server[c].req) :
            server' = [ server EXCEPT ![c] =
                          [ @ EXCEPT !.pc = "afterEndpoint",
                                     !.response = p,
                                     !.log = Append(@, "endpoint") ] ]
       \/ \E e \in EndpointErrs :
            server' = [ server EXCEPT ![c] =
                          CallErrorHandler(
                              [ @ EXCEPT !.epErr = e, !.log = Append(@, "endpoint") ],
                              endpointErr(e)) ]
    /\ UNCHANGED <<sconf, cconf, client, active, writer, traced>>

AfterEndpoint(c) ==
    /\ server[c].pc = "afterEndpoint"
    /\ server' = [ server EXCEPT ![c] =
                     [ @ EXCEPT !.pc = "encode",
                                !.log = Hooked("AfterEndpoint", @) ] ]
    /\ UNCHANGED <<sconf, cconf, client, active, writer, traced>>

EncodeResponse(c) ==
    /\ server[c].pc = "encode"
    /\ \/ server' = [ server EXCEPT ![c] =
                        [ @ EXCEPT !.pc = "return",
                                   !.encoded = EncoderArg(server[c]),
                                   !.w = encoder(@, EncoderArg(server[c]), NoErr),
                                   !.log = Append(@, "encoder") ] ]
       \/ \E e \in EncodeCauses :
            server' = [ server EXCEPT ![c] =
                          CallErrorHandler(
                              [ @ EXCEPT !.encErr = e,
                                         !.encoded = EncoderArg(server[c]),
                                         !.w = encoder(@, EncoderArg(server[c]), e),
                                         !.log = Append(@, "encoder") ],
                              encodeErr(e)) ]
    /\ UNCHANGED <<sconf, cconf, client, active, writer, traced>>

\* ServeHTTP returns: the deferred Finalizer runs with rw.code, then the
\* transport completes the response
ServeHTTPReturn(c) ==
    /\ server[c].pc = "return"
    /\ server' = [ server EXCEPT ![c] =
                     [ @ EXCEPT
                         !.pc = "done",
                         !.log = Hooked("Finalizer", @),
                         !.finalizerArgs = IF "Finalizer" \in sconf.hooks
                                           THEN Append(@, server[c].w.rw.code) ELSE @,
                         !.w.sink = SinkFinish(@) ] ]
    /\ UNCHANGED <<sconf, cconf, client, active, writer, traced>>

\* the call's state goes away with the call; the Server serves the next one
ServerCallEnds(c) ==
    /\ server[c].pc = "done"
    /\ server' = [ server EXCEPT ![c] = IdleServerCall ]
    /\ UNCHANGED <<sconf, cconf, client, active, writer, traced>>

\* ---------------------------------------------------------------------------
\* Client pipeline
\* ---------------------------------------------------------------------------

ClientHooks ==
    { "BeforePrepareRequest", "RequestPrepared", "BeforeSendRequest",
      "ResponseReceived", "ResponseDecoded", "Finalizer", "OnError" }

\* NewClient binds makeCreateRequest(method, uri, encoder); the uri given at
\* construction either parses or makes every http.NewRequest fail.
\* NewCustomRequestClient binds the caller's own builder.
Builders == { "makeCreateRequest", "makeCreateRequestBadURI", "custom" }

Decoders == { "DecodeJSONResponse", "custom" }

ClientConfigs == [ hooks : SUBSET ClientHooks, builder : Builders, decoder : Decoders ]

\* var zero R
Zero == "zero"

\* a value the decoder left partly filled when it failed
Partial == "partial"

\* status codes the remote service answers with
Statuses == { 199, 200, 299, 300, 404 }

\* response bodies: a document of the response type, a document with none of
\* its fields, and a truncated document
Bodies == { "{\"v\":1}", "{\"err\":\"missing\"}", "{\"v\":" }

\* errors http.NewRequest, a custom builder and the request encoder return
NewRequestErr == <<"invalid URI">>

BuildCauses == { <<"missing field">> }

EncodeRequestCauses == { <<"unsupported type">> }

\* errors the transport's Do returns; Do yields a response or an error
TransportErrs == { <<"connection refused">>, <<"context canceled">> }

\* errors a custom response decoder returns
DecodeResponseCauses == { <<"unexpected content type">> }

\* header sets of a response, by their Content-Type
Headers == { "application/json", "text/html" }

NoResponse == [ StatusCode |-> 0, Header |-> "", Body |-> "" ]

\* the fields of an HttpError; all empty when the error is none
NoHttpError == [ Status |-> 0, Header |-> "", Body |-> "" ]

IdleClientCall ==
    [ pc |-> "idle", ctx |-> <<>>, cancels |-> 0,
      statusCode |-> 0, err |-> NoErr,
      resp |-> NoResponse,
      log |-> <<>>, seen |-> <<>>, finalizerArgs |-> <<>>, onErrorArgs |-> <<>>,
      buildErr |-> NoErr, doErr |-> NoErr, decErr |-> NoErr,
      decValue |-> "none", decHttpErr |-> NoHttpError, decUnmarshalled |-> FALSE,
      ret |-> [ returned |-> FALSE, value |-> "none", err |-> NoErr ] ]

IdleClientConfig == [ hooks |-> {}, builder |-> "custom", decoder |-> "custom" ]

ClientHooked(name, log) == IF name \in cconf.hooks THEN Append(log, name) ELSE log

\* the context a stage of the call is given, noted in s.seen
Saw(s, name, ctx) == Append(s.seen, [ stage |-> name, ctx |-> ctx ])

HookSaw(s, name) == IF name \in cconf.hooks THEN Saw(s, name, s.ctx) ELSE s.seen

\* a dispatch under the context the call started with
DoContextOfCallStart(s) == SubSeq(s.ctx, 1, 2)

\* req.WithContext(ctx)
DoContext(s) == s.ctx

\* a return that hands back what the decoder produced whenever it ran, its
\* error or not
ClientReturnsDecoded(s, value, err) ==
    [ s EXCEPT !.ret = [ returned |-> TRUE,
                         value |-> IF s.decValue # "none" THEN s.decValue ELSE value,
                         err |-> err ],
               !.pc = "return" ]

\* return zero, err / return response, nil: the deferred calls run next
ClientReturns(s, value, err) ==
    [ s EXCEPT !.ret = [ returned |-> TRUE, value |-> value, err |-> err ],
               !.pc = "return" ]

\* json.NewDecoder(resp.Body).Decode(&data)
JSONDecode(body) ==
    CASE body = "{\"v\":1}" -> [ data |-> "v1", err |-> NoErr ]
      [] body = "{\"err\":\"missing\"}" -> [ data |-> Zero, err |-> NoErr ]
      [] OTHER -> [ data |-> Partial, err |-> <<"unexpected EOF">> ]

\* HttpError{Status, Header, Body} as an error leaf
HttpError == "HttpError"

\* body, _ := io.ReadAll(resp.Body)
ReadAll(body) == body

\* a decoder that takes 300 for a success
DecodeJSONResponseOffByOne(resp) ==
    IF resp.StatusCode >= 200 /\ resp.StatusCode <= 300
    THEN [ data |-> JSONDecode(resp.Body).data, err |-> JSONDecode(resp.Body).err,
           httpErr |-> NoHttpError, unmarshalled |-> TRUE ]
    ELSE [ data |-> Zero, err |-> <<HttpError>>,
           httpErr |-> [ Status |-> resp.StatusCode, Header |-> resp.Header,
                         Body |-> ReadAll(resp.Body) ],
           unmarshalled |-> FALSE ]

\* the value and error returned, the fields of the HttpError when the error is
\* one, and whether the body was given to the JSON decoder
DecodeJSONResponse(resp) ==
    IF resp.StatusCode >= 200 /\ resp.StatusCode <= 299
    THEN [ data |-> JSONDecode(resp.Body).data, err |-> JSONDecode(resp.Body).err,
           httpErr |-> NoHttpError, unmarshalled |-> TRUE ]
    ELSE [ data |-> Zero, err |-> <<HttpError>>,
           httpErr |-> [ Status |-> resp.StatusCode, Header |-> resp.Header,
                         Body |-> ReadAll(resp.Body) ],
           unmarshalled |-> FALSE ]

\* the outcomes of c.decoder(ctx, resp)
DecoderOutcomes(resp) ==
    IF cconf.decoder = "DecodeJSONResponse"
    THEN { DecodeJSONResponse(resp) }
    ELSE { [ data |-> d, err |-> NoErr, httpErr |-> NoHttpError, unmarshalled |-> FALSE ] :
             d \in Resps }
         \cup { [ data |-> d, err |-> e, httpErr |-> NoHttpError, unmarshalled |-> FALSE ] :
                  d \in { Zero, Partial }, e \in DecodeResponseCauses }

\* a builder that returns the request encoder's error as it is
makeCreateRequestUnwrapped(uriOK, encErr) ==
    IF ~uriOK THEN NewRequestErr ELSE encErr

\* the errors of c.reqBuilder(ctx, request); NoErr when the request is built
makeCreateRequest(uriOK, encErr) ==
    IF ~uriOK THEN NewRequestErr
    ELSE IF encErr # NoErr THEN Wrap(ErrEncodeRequest, encErr)
    ELSE NoErr

BuilderOutcomes ==
    CASE cconf.builder = "makeCreateRequest" ->
           { makeCreateRequest(TRUE, e) : e \in { NoErr } \cup EncodeRequestCauses }
      [] cconf.builder = "makeCreateRequestBadURI" ->
           { makeCreateRequest(FALSE, e) : e \in { NoErr } \cup EncodeRequestCauses }
      [] OTHER -> { NoErr } \cup BuildCauses

\* a Finalizer whose closure kept the err declared before the stages shadowed it
FinalizerCallShadowedErr(s) ==
    [ statusCode |-> s.statusCode, err |-> NoErr, ctx |-> s.ctx,
      cancelled |-> s.cancels > 0 ]

\* a Finalizer reading statusCode and err declared once for the Endpoint, outside
\* the function that runs per call, where every call writes them
FinalizerCallSharedVariables(s) ==
    [ statusCode |-> client[1].statusCode, err |-> client[1].err, ctx |-> s.ctx,
      cancelled |-> s.cancels > 0 ]

\* c.hooks.Finalizer(ctx, statusCode, err): the deferred closure reads the
\* call's variables when it runs
FinalizerCall(s) ==
    [ statusCode |-> s.statusCode, err |-> s.err, ctx |-> s.ctx,
      cancelled |-> s.cancels > 0 ]

\* the decoder's error returned without its sentinel
decodeResponseErrUnwrapped(err) == err

\* err = fmt.Errorf("%w: %w", ErrDecodeResponse, err)
decodeResponseErr(err) == Wrap(ErrDecodeResponse, err)

\* a transport failure that is noted but not returned on
DoFailedNoReturn(s, e) ==
    [ s EXCEPT !.doErr = e, !.err = e, !.log = Append(@, "Do"),
               !.seen = Saw(s, "Do", DoContext(s)),
               !.pc = "responseReceived" ]

\* resp, err := c.client.Do(...) with err != nil: return zero, err
DoFailed(s, e) ==
    ClientReturns([ s EXCEPT !.doErr = e, !.err = e, !.log = Append(@, "Do"),
                             !.seen = Saw(s, "Do", DoContext(s)) ], Zero, e)

\* the endpoint is called: the child context, the deferred cancel, the call's
\* variables and the deferred Finalizer
ClientEndpoint(c) ==
    /\ c \in active.client
    /\ client[c].pc = "idle"
    /\ client' = [ client EXCEPT ![c] =
                     [ IdleClientCall EXCEPT !.pc = "beforePrepare",
                                             !.ctx = <<"parent", "WithCancel">> ] ]
    /\ UNCHANGED <<sconf, server, cconf, active, writer, traced>>

ClientBeforePrepareRequest(c) ==
    /\ client[c].pc = "beforePrepare"
    /\ client' = [ client EXCEPT ![c] =
                     [ @ EXCEPT !.pc = "build",
                                !.seen = HookSaw(client[c], "BeforePrepareRequest"),
                                !.log = ClientHooked("BeforePrepareRequest", @) ] ]
    /\ UNCHANGED <<sconf, server, cconf, active, writer, traced>>

ClientBuildRequest(c) ==
    /\ client[c].pc = "build"
    /\ \E e \in BuilderOutcomes :
         LET s == [ client[c] EXCEPT !.buildErr = e, !.err = e,
                                     !.seen = Saw(client[c], "reqBuilder", client[c].ctx),
                                     !.log = Append(@, "reqBuilder") ]
         IN  client' = [ client EXCEPT ![c] =
                           IF e # NoErr THEN ClientReturns(s, Zero, e)
                           ELSE [ s EXCEPT !.pc = "requestPrepared" ] ]
    /\ UNCHANGED <<sconf, server, cconf, active, writer, traced>>

ClientRequestPrepared(c) ==
    /\ client[c].pc = "requestPrepared"
    /\ client' = [ client EXCEPT ![c] =
                     [ @ EXCEPT !.pc = "beforeSend",
                                !.ctx = IF "RequestPrepared" \in cconf.hooks
                                        THEN Append(@, "RequestPrepared") ELSE @,
                                !.seen = HookSaw(client[c], "RequestPrepared"),
                                !.log = ClientHooked("RequestPrepared", @) ] ]
    /\ UNCHANGED <<sconf, server, cconf, active, writer, traced>>

ClientBeforeSendRequest(c) ==
    /\ client[c].pc = "beforeSend"
    /\ client' = [ client EXCEPT ![c] =
                     [ @ EXCEPT !.pc = "do",
                                !.seen = HookSaw(client[c], "BeforeSendRequest"),
                                !.log = ClientHooked("BeforeSendRequest", @) ] ]
    /\ UNCHANGED <<sconf, server, cconf, active, writer, traced>>

ClientDo(c) ==
    /\ client[c].pc = "do"
    /\ \/ \E st \in Statuses, h \in Headers, b \in Bodies :
            client' = [ client EXCEPT ![c] =
                          [ @ EXCEPT !.pc = "responseReceived",
                                     !.err = NoErr,
                                     !.resp = [ StatusCode |-> st, Header |-> h, Body |-> b ],
                                     !.statusCode = st,
                                     !.seen = Saw(client[c], "Do", DoContext(client[c])),
                                     !.log = Append(@, "Do") ] ]
       \/ \E e \in TransportErrs :
            client' = [ client EXCEPT ![c] = DoFailed(@, e) ]
    /\ UNCHANGED <<sconf, server, cconf, active, writer, traced>>

ClientResponseReceived(c) ==
    /\ client[c].pc = "responseReceived"
    /\ client' = [ client EXCEPT ![c] =
                     [ @ EXCEPT !.pc = "decode",
                                !.ctx = IF "ResponseReceived" \in cconf.hooks
                                        THEN Append(@, "ResponseReceived") ELSE @,
                                !.seen = HookSaw(client[c], "ResponseReceived"),
                                !.log = ClientHooked("ResponseReceived", @) ] ]
    /\ UNCHANGED <<sconf, server, cconf, active, writer, traced>>

ClientDecodeResponse(c) ==
    /\ client[c].pc = "decode"
    /\ \E out \in DecoderOutcomes(client[c].resp) :
         LET s == [ client[c] EXCEPT !.decErr = out.err, !.decValue = out.data,
                                     !.decHttpErr = out.httpErr,
                                     !.decUnmarshalled = out.unmarshalled,
                                     !.seen = Saw(client[c], "decoder", client[c].ctx),
                                     !.log = Append(@, "decoder") ]
             wrapped == decodeResponseErr(out.err)
         IN  client' = [ client EXCEPT ![c] =
               IF out.err # NoErr
               THEN ClientReturns(
                        [ s EXCEPT !.err = wrapped,
                                   !.seen = HookSaw(s, "OnError"),
                                   !.log = ClientHooked("OnError", @),
                                   !.onErrorArgs = IF "OnError" \in cconf.hooks
                                                   THEN Append(@, wrapped) ELSE @ ],
                        Zero, wrapped)
               ELSE [ s EXCEPT !.err = NoErr, !.pc = "responseDecoded" ] ]
    /\ UNCHANGED <<sconf, server, cconf, active, writer, traced>>

ClientResponseDecoded(c) ==
    /\ client[c].pc = "responseDecoded"
    /\ client' = [ client EXCEPT ![c] =
                     ClientReturns(
                         [ @ EXCEPT !.seen = HookSaw(client[c], "ResponseDecoded"),
                                    !.log = ClientHooked("ResponseDecoded", @) ],
                         client[c].decValue, NoErr) ]
    /\ UNCHANGED <<sconf, server, cconf, active, writer, traced>>

\* a cancel() called at the end of the function body, which a failing call
\* never reaches
cancelNotDeferred(s) ==
    IF s.ret.err = NoErr
    THEN [ s EXCEPT !.cancels = @ + 1, !.log = Append(@, "cancel") ]
    ELSE s

\* defer cancel(): the child context of the call is cancelled
cancel(s) == [ s EXCEPT !.cancels = @ + 1, !.log = Append(@, "cancel") ]

\* defer func() { c.hooks.Finalizer(ctx, statusCode, err) }(), if the slot is set
RunFinalizer(s) ==
    [ s EXCEPT !.finalizerArgs = IF "Finalizer" \in cconf.hooks
                                 THEN Append(@, FinalizerCall(s)) ELSE @,
               !.seen = IF "Finalizer" \in cconf.hooks
                        THEN Saw(s, "Finalizer", FinalizerCall(s).ctx) ELSE @,
               !.log = ClientHooked("Finalizer", @) ]

\* deferred calls run in the order they were registered
RunDeferredInOrder(s) == RunFinalizer(cancel(s))

\* the deferred calls, last registered first: the Finalizer, then cancel()
RunDeferred(s) == cancel(RunFinalizer(s))

ClientReturn(c) ==
    /\ client[c].pc = "return"
    /\ client' = [ client EXCEPT ![c] = [ RunDeferred(@) EXCEPT !.pc = "done" ] ]
    /\ UNCHANGED <<sconf, server, cconf, active, writer, traced>>

\* the call's variables go away with the call; the Endpoint is reusable
ClientCallEnds(c) ==
    /\ client[c].pc = "done"
    /\ client' = [ client EXCEPT ![c] = IdleClientCall ]
    /\ UNCHANGED <<sconf, server, cconf, active, writer, traced>>

\* ---------------------------------------------------------------------------
\* The client with tracing
\* ---------------------------------------------------------------------------

\* most RequestPrepared and most ResponseReceived hooks on a client
MaxTraceHooks == 1

\* most calls made through one Endpoint
MaxTracedCalls == 2

\* Client{requestPrepared, responseReceived, traceEnabled}, by the number of
\* hooks in each list
TracedConfigs ==
    [ traceEnabled : BOOLEAN,
      requestPrepared : 0..MaxTraceHooks,
      responseReceived : 0..MaxTraceHooks ]

NoReturn == [ value |-> "none", err |-> NoErr ]

\* a client and its call: conf, the call's position and variables, what the
\* trace block printed (sink) and what each finished call returned (rets)
NewTraced(conf) ==
    [ conf |-> conf, pc |-> "idle", ctx |-> <<>>, req |-> "none",
      resp |-> NoResponse, ret |-> NoReturn, cancels |-> 0,
      sink |-> <<>>, rets |-> <<>> ]

IdleTraced == NewTraced([ traceEnabled |-> FALSE, requestPrepared |-> 0, responseReceived |-> 0 ])

\* the errors of c.reqBuilder(ctx, request): makeCreateRequest returns the
\* error of http.NewRequest or of the request encoder as it is
TracedBuilderErrs == { NoErr, NewRequestErr } \cup EncodeRequestCauses

\* ctx after the hooks of a list of n have each replaced it
RECURSIVE RunHooks(_, _, _)
RunHooks(ctx, name, n) ==
    IF n = 0 THEN ctx ELSE Append(RunHooks(ctx, name, n - 1), name)

\* the TraceInfo built from the call's variables
TraceInfo(s) ==
    [ Method |-> "POST", URL |-> s.req,
      StatusCode |-> IF s.resp = NoResponse THEN 0 ELSE s.resp.StatusCode,
      Error |-> s.ret.err ]

\* if c.traceEnabled { ... fmt.Println(info) }
TracePrinted(s) ==
    IF s.conf.traceEnabled THEN Append(s.sink, TraceInfo(s)) ELSE s.sink

\* return zero, err
TracedFails(s, e) == [ s EXCEPT !.pc = "return", !.ret = [ value |-> Zero, err |-> e ] ]

\* ctx, cancel := context.WithCancel(ctx); defer cancel(); start = time.Now()
TracedEndpoint ==
    /\ traced.pc = "idle"
    /\ Len(traced.rets) < MaxTracedCalls
    /\ traced' = [ traced EXCEPT !.pc = "build", !.ctx = <<"cancelable">>,
                                 !.req = "none", !.resp = NoResponse,
                                 !.ret = NoReturn, !.cancels = 0 ]
    /\ UNCHANGED <<sconf, server, cconf, client, active, writer>>

\* req, err := c.reqBuilder(ctx, request)
TracedBuildRequest ==
    /\ traced.pc = "build"
    /\ \E e \in TracedBuilderErrs, path \in Paths :
         traced' = IF e # NoErr
                   THEN TracedFails(traced, e)
                   ELSE [ traced EXCEPT !.pc = "trace", !.req = path ]
    /\ UNCHANGED <<sconf, server, cconf, client, active, writer>>

\* if c.traceEnabled { ctx = httptrace.WithClientTrace(ctx, clientTrace) }
TracedInstallTrace ==
    /\ traced.pc = "trace"
    /\ traced' = [ traced EXCEPT
                     !.pc = "requestPrepared",
                     !.ctx = IF traced.conf.traceEnabled THEN Append(@, "clientTrace") ELSE @ ]
    /\ UNCHANGED <<sconf, server, cconf, client, active, writer>>

\* for _, fn := range c.requestPrepared { ctx = fn(ctx, req) }
TracedRequestPrepared ==
    /\ traced.pc = "requestPrepared"
    /\ traced' = [ traced EXCEPT
                     !.pc = "do",
                     !.ctx = RunHooks(@, "RequestPrepared", traced.conf.requestPrepared) ]
    /\ UNCHANGED <<sconf, server, cconf, client, active, writer>>

\* resp, err := c.client.Do(req.WithContext(ctx))
TracedDo ==
    /\ traced.pc = "do"
    /\ \/ \E st \in Statuses, b \in Bodies :
            traced' = [ traced EXCEPT
                          !.pc = "responseReceived",
                          !.resp = [ StatusCode |-> st, Header |-> "application/json",
                                     Body |-> b ] ]
       \/ \E e \in TransportErrs : traced' = TracedFails(traced, e)
    /\ UNCHANGED <<sconf, server, cconf, client, active, writer>>

\* for _, fn := range c.responseReceived { ctx = fn(ctx, resp) }
TracedResponseReceived ==
    /\ traced.pc = "responseReceived"
    /\ traced' = [ traced EXCEPT
                     !.pc = "decode",
                     !.ctx = RunHooks(@, "ResponseReceived", traced.conf.responseReceived) ]
    /\ UNCHANGED <<sconf, server, cconf, client, active, writer>>

\* response, err := c.decoder(ctx, resp)
TracedDecodeResponse ==
    /\ traced.pc = "decode"
    /\ \/ \E d \in Resps :
            traced' = [ traced EXCEPT !.pc = "record", !.ret = [ value |-> d, err |-> NoErr ] ]
       \/ \E e \in DecodeResponseCauses : traced' = TracedFails(traced, e)
    /\ UNCHANGED <<sconf, server, cconf, client, active, writer>>

\* totalDur := time.Since(start); the trace block; return response, nil
TracedRecord ==
    /\ traced.pc = "record"
    /\ traced' = [ traced EXCEPT !.pc = "return", !.sink = TracePrinted(traced) ]
    /\ UNCHANGED <<sconf, server, cconf, client, active, writer>>

\* the deferred cancel runs and the caller has the result
TracedReturn ==
    /\ traced.pc = "return"
    /\ traced' = [ traced EXCEPT
                     !.pc = "idle",
                     !.cancels = @ + 1,
                     !.rets = Append(@, [ value |-> traced.ret.value,
                                          err |-> traced.ret.err,
                                          StatusCode |-> traced.resp.StatusCode ]) ]
    /\ UNCHANGED <<sconf, server, cconf, client, active, writer>>

\* ---------------------------------------------------------------------------
\* Specifications
\* ---------------------------------------------------------------------------

Init ==
    /\ sconf \in ServerConfigs
    /\ server = [ c \in CallIds |-> IdleServerCall ]
    /\ cconf = IdleClientConfig
    /\ client = [ c \in CallIds |-> IdleClientCall ]
    /\ active = [ server |-> {1}, client |-> {} ]
    /\ writer = IdleWriter
    /\ traced = IdleTraced

Next ==
    \/ \E c \in CallIds : ServeHTTP(c)
    \/ \E c \in CallIds : BeforeDecodeRequest(c)
    \/ \E c \in CallIds : DecodeRequest(c)
    \/ \E c \in CallIds : RequestDecoded(c)
    \/ \E c \in CallIds : Validate(c)
    \/ \E c \in CallIds : InvokeEndpoint(c)
    \/ \E c \in CallIds : AfterEndpoint(c)
    \/ \E c \in CallIds : EncodeResponse(c)
    \/ \E c \in CallIds : ServeHTTPReturn(c)
    \/ \E c \in CallIds : ServerCallEnds(c)

Spec == Init /\ [][Next]_vars

IdleServerConfig ==
    [ hooks |-> {}, validator |-> FALSE, endpoint |-> "business",
      encoder |-> "custom", errorHandler |-> "default" ]

ClientInit ==
    /\ sconf = IdleServerConfig
    /\ server = [ c \in CallIds |-> IdleServerCall ]
    /\ cconf \in ClientConfigs
    /\ client = [ c \in CallIds |-> IdleClientCall ]
    /\ active = [ server |-> {}, client |-> {1} ]
    /\ writer = IdleWriter
    /\ traced = IdleTraced

ClientNext ==
    \/ \E c \in CallIds : ClientEndpoint(c)
    \/ \E c \in CallIds : ClientBeforePrepareRequest(c)
    \/ \E c \in CallIds : ClientBuildRequest(c)
    \/ \E c \in CallIds : ClientRequestPrepared(c)
    \/ \E c \in CallIds : ClientBeforeSendRequest(c)
    \/ \E c \in CallIds : ClientDo(c)
    \/ \E c \in CallIds : ClientResponseReceived(c)
    \/ \E c \in CallIds : ClientDecodeResponse(c)
    \/ \E c \in CallIds : ClientResponseDecoded(c)
    \/ \E c \in CallIds : ClientReturn(c)
    \/ \E c \in CallIds : ClientCallEnds(c)

ClientSpec == ClientInit /\ [][ClientNext]_vars

\* ---------------------------------------------------------------------------
\* The response writer decorator under any sequence of calls
\* ---------------------------------------------------------------------------

\* most calls made on one decorator
MaxWriterCalls == 3

\* byte strings given to Write
ByteStrings == { <<>>, <<"a">>, <<"a", "b">> }

\* status codes given to WriteHeader
WriterStatuses == { 200, 404, 500 }

\* errors a sink's own Hijack or Push returns
SinkCapabilityErrs == { NoErr, <<"connection closed">> }

WriterCall(op, statusCode, bytes, n, result) ==
    [ op |-> op, statusCode |-> statusCode, bytes |-> bytes, n |-> n,
      forwarded |-> result.forwarded, err |-> result.err ]

Forwarded == [ forwarded |-> TRUE, err |-> NoErr ]

CanCall == Len(writer.history) < MaxWriterCalls

WriterHeader ==
    /\ CanCall
    /\ \E value \in Headers :
         writer' = [ writer EXCEPT
                       !.w = rwHeaderSet(@, value),
                       !.history = Append(@, WriterCall("Header", 0, <<>>, 0, Forwarded)) ]
    /\ UNCHANGED <<sconf, server, cconf, client, active, traced>>

\* the sink takes n of the bytes; fewer than all when it fails
WriterWrite ==
    /\ CanCall
    /\ \E bytes \in ByteStrings : \E n \in 0..Len(bytes) :
         writer' = [ writer EXCEPT
                       !.w = rwWriteN(@, bytes, n),
                       !.history = Append(@, WriterCall("Write", 0, bytes, n, Forwarded)) ]
    /\ UNCHANGED <<sconf, server, cconf, client, active, traced>>

WriterWriteHeader ==
    /\ CanCall
    /\ \E statusCode \in WriterStatuses :
         writer' = [ writer EXCEPT
                       !.w = rwWriteHeader(@, statusCode),
                       !.history = Append(@, WriterCall("WriteHeader", statusCode, <<>>, 0,
                                                        Forwarded)) ]
    /\ UNCHANGED <<sconf, server, cconf, client, active, traced>>

CapabilityCall(op, result) ==
    writer' = [ writer EXCEPT
                  !.capCalls = IF result.forwarded THEN Append(@, op) ELSE @,
                  !.history = Append(@, WriterCall(op, 0, <<>>, 0, result)) ]

WriterHijack ==
    /\ CanCall
    /\ \E sinkErr \in SinkCapabilityErrs :
         CapabilityCall("Hijack", rwHijack(writer.caps, sinkErr))
    /\ UNCHANGED <<sconf, server, cconf, client, active, traced>>

WriterFlush ==
    /\ CanCall
    /\ CapabilityCall("Flush", rwFlush(writer.caps))
    /\ UNCHANGED <<sconf, server, cconf, client, active, traced>>

WriterPush ==
    /\ CanCall
    /\ \E sinkErr \in SinkCapabilityErrs :
         CapabilityCall("Push", rwPush(writer.caps, sinkErr))
    /\ UNCHANGED <<sconf, server, cconf, client, active, traced>>

WriterInit ==
    /\ sconf = IdleServerConfig
    /\ server = [ c \in CallIds |-> IdleServerCall ]
    /\ cconf = IdleClientConfig
    /\ client = [ c \in CallIds |-> IdleClientCall ]
    /\ active = [ server |-> {}, client |-> {} ]
    /\ writer \in { NewWriter(caps) : caps \in SUBSET Capabilities }
    /\ traced = IdleTraced

WriterNext ==
    \/ WriterHeader
    \/ WriterWrite
    \/ WriterWriteHeader
    \/ WriterHijack
    \/ WriterFlush
    \/ WriterPush

WriterSpec == WriterInit /\ [][WriterNext]_vars

TraceInit ==
    /\ sconf = IdleServerConfig
    /\ server = [ c \in CallIds |-> IdleServerCall ]
    /\ cconf = IdleClientConfig
    /\ client = [ c \in CallIds |-> IdleClientCall ]
    /\ active = [ server |-> {}, client |-> {} ]
    /\ writer = IdleWriter
    /\ traced \in { NewTraced(conf) : conf \in TracedConfigs }

TraceNext ==
    \/ TracedEndpoint
    \/ TracedBuildRequest
    \/ TracedInstallTrace
    \/ TracedRequestPrepared
    \/ TracedDo
    \/ TracedResponseReceived
    \/ TracedDecodeResponse
    \/ TracedRecord
    \/ TracedReturn

TraceSpec == TraceInit /\ [][TraceNext]_vars

\* Concurrent calls: the transport runs every call on its own goroutine, so the
\* stages of the calls on one Server, or on one client Endpoint, interleave.
ConcInit ==
    /\ writer = IdleWriter
    /\ traced = IdleTraced
    /\ server = [ c \in CallIds |-> IdleServerCall ]
    /\ client = [ c \in CallIds |-> IdleClientCall ]
    /\ \/ /\ sconf \in { cfg \in ServerConfigs :
                            cfg.hooks = ServerHooks /\ cfg.validator
                              /\ cfg.endpoint = "business" }
          /\ cconf = IdleClientConfig
          /\ active = [ server |-> CallIds, client |-> {} ]
       \/ /\ sconf = IdleServerConfig
          /\ cconf \in { cfg \in ClientConfigs : cfg.hooks = ClientHooks }
          /\ active = [ server |-> {}, client |-> CallIds ]

ConcNext == Next \/ ClientNext

ConcSpec == ConcInit /\ [][ConcNext]_vars

\* ---------------------------------------------------------------------------
\* Properties
\* ---------------------------------------------------------------------------

Count(log, name) == Cardinality({ i \in DOMAIN log : log[i] = name })

ServerFailed(s) ==
    \/ s.decErr # NoErr
    \/ s.validated /\ ~s.ok
    \/ s.epErr # NoErr
    \/ s.encErr # NoErr

\* the document of the last body write the sink received
LastDocument(s) == s.w.sink.writes[Len(s.w.sink.writes)][1]

\* the status of the last WriteHeader the sink received
LastHeaderCall(s) == s.w.sink.headerCalls[Len(s.w.sink.headerCalls)]

\* C1: when the request decoder fails, the validator, the endpoint and the
\* encoder are not invoked for that call, and the error handler is invoked
\* exactly once, with an error that matches ErrDecodeRequest and wraps the
\* decoder's error.
C1_DecodeFailure ==
    \A c \in CallIds :
        LET s == server[c]
        IN  s.decErr # NoErr =>
              /\ Count(s.log, "validator") = 0
              /\ Count(s.log, "endpoint") = 0
              /\ Count(s.log, "encoder") = 0
              /\ Count(s.log, "errorHandler") = 1
              /\ Len(s.handlerArgs) = 1
              /\ Is(s.handlerArgs[1], ErrDecodeRequest)
              /\ Len(s.handlerArgs[1]) = Len(s.decErr) + 1
              /\ SubSeq(s.handlerArgs[1], 2, Len(s.handlerArgs[1])) = s.decErr

C1_Witness ==
    \E c \in CallIds : server[c].pc = "done" /\ server[c].decErr # NoErr

\* C2: when the validator rejects, the response has status 400 and its details
\* are the validator's violations in their order; the endpoint, the encoder and
\* the configured error handler are not invoked for that call.
C2_ValidationRejected ==
    \A c \in CallIds :
        LET s == server[c]
        IN  (s.validated /\ ~s.ok) =>
              /\ s.w.sink.status = 400
              /\ s.w.sink.headerCalls = <<400>>
              /\ Len(s.w.sink.writes) = 1
              /\ LastDocument(s).statusCode = 400
              /\ Len(LastDocument(s).details) = Len(s.violations)
              /\ \A i \in DOMAIN s.violations :
                    /\ LastDocument(s).details[i].field = s.violations[i].Field
                    /\ LastDocument(s).details[i].message = s.violations[i].Message
              /\ Count(s.log, "endpoint") = 0
              /\ Count(s.log, "encoder") = 0
              /\ Count(s.log, "errorHandler") = 0
              /\ s.handlerArgs = <<>>

C2_Witness ==
    \E c \in CallIds :
        /\ server[c].pc = "done"
        /\ server[c].validated /\ ~server[c].ok
        /\ Len(server[c].violations) = 2
        /\ server[c].violations[1] # server[c].violations[2]

\* C3: with a Finalizer registered, every finished call has invoked it exactly
\* once, as its last stage, with the status code the sink sent.
C3_FinalizerReportsSentStatus ==
    \A c \in CallIds :
        LET s == server[c]
        IN  (s.pc = "done" /\ "Finalizer" \in sconf.hooks) =>
              /\ Count(s.log, "Finalizer") = 1
              /\ s.log[Len(s.log)] = "Finalizer"
              /\ s.finalizerArgs = <<s.w.sink.status>>

\* C4: a call that failed (decode failure, rejection, endpoint failure, encode
\* failure) has written one status line to the sink when it returns, and has run
\* no stage twice.
C4_OneResponsePerFailure ==
    \A c \in CallIds :
        LET s == server[c]
        IN  (s.pc = "done" /\ ServerFailed(s)) =>
              /\ Len(s.w.sink.headerCalls) = 1
              /\ \A i, j \in DOMAIN s.log : s.log[i] = s.log[j] => i = j

\* C5: when the endpoint fails, the error handler is invoked exactly once with
\* the endpoint's own error value, and neither AfterEndpoint nor the encoder is
\* invoked for that call.
C5_EndpointFailure ==
    \A c \in CallIds :
        LET s == server[c]
        IN  s.epErr # NoErr =>
              /\ Count(s.log, "errorHandler") = 1
              /\ s.handlerArgs = <<s.epErr>>
              /\ Count(s.log, "AfterEndpoint") = 0
              /\ Count(s.log, "encoder") = 0

C5_Witness ==
    \E c \in CallIds :
        /\ server[c].pc = "done"
        /\ server[c].epErr # NoErr
        /\ "AfterEndpoint" \in sconf.hooks

\* C6: when the encoder fails, the error handler is invoked exactly once with an
\* error that matches ErrEncodeResponse, does not match ErrDecodeRequest, and
\* wraps the encoder's error.
C6_EncodeFailure ==
    \A c \in CallIds :
        LET s == server[c]
        IN  s.encErr # NoErr =>
              /\ Count(s.log, "errorHandler") = 1
              /\ Len(s.handlerArgs) = 1
              /\ Is(s.handlerArgs[1], ErrEncodeResponse)
              /\ ~Is(s.handlerArgs[1], ErrDecodeRequest)
              /\ Len(s.handlerArgs[1]) = Len(s.encErr) + 1
              /\ SubSeq(s.handlerArgs[1], 2, Len(s.handlerArgs[1])) = s.encErr

C6_Witness ==
    \E c \in CallIds : server[c].pc = "done" /\ server[c].encErr # NoErr

\* C7: a successful call on a server with a validator and all six hooks runs
\* BeforeDecodeRequest, decoder, RequestDecoded, BeforeValidation, validator,
\* RequestValidated, endpoint, AfterEndpoint, encoder, Finalizer, in that order
\* and once each.
C7_HookOrder ==
    \A c \in CallIds :
        LET s == server[c]
        IN  (s.pc = "done" /\ ~ServerFailed(s)
               /\ sconf.validator /\ sconf.hooks = ServerHooks) =>
              s.log = << "BeforeDecodeRequest", "decoder", "RequestDecoded",
                         "BeforeValidation", "validator", "RequestValidated",
                         "endpoint", "AfterEndpoint", "encoder", "Finalizer" >>

C7_Witness ==
    \E c \in CallIds :
        /\ server[c].pc = "done" /\ ~ServerFailed(server[c])
        /\ sconf.validator /\ sconf.hooks = ServerHooks

\* C8: the default error handler writes status 400 with message "Bad Request"
\* exactly when its error matches ErrDecodeRequest, writes status 500 with the
\* error's message as details otherwise, and the statusCode of the body it
\* writes is the status it writes.
C8_DefaultErrorHandler ==
    \A c \in CallIds :
        LET s == server[c]
        IN  (sconf.errorHandler = "default" /\ s.handlerArgs # <<>>) =>
              LET err == s.handlerArgs[1]
                  doc == LastDocument(s)
              IN  /\ (LastHeaderCall(s) = 400 /\ doc.message = "Bad Request")
                        <=> Is(err, ErrDecodeRequest)
                  /\ ~Is(err, ErrDecodeRequest) =>
                        /\ LastHeaderCall(s) = 500
                        /\ doc.details = ErrorString(err)
                  /\ doc.statusCode = LastHeaderCall(s)

C8_Witness ==
    \E c \in CallIds :
        /\ sconf.errorHandler = "default"
        /\ server[c].pc = "done"
        /\ server[c].encErr # NoErr
        /\ LastHeaderCall(server[c]) = 500

\* C9: with a client Finalizer registered, every finished call has invoked it
\* exactly once, with the error the call returned and the status code of the
\* response received, 0 when none was.
C9_ClientFinalizer ==
    \A c \in CallIds :
        LET s == client[c]
        IN  (s.pc = "done" /\ "Finalizer" \in cconf.hooks) =>
              /\ Count(s.log, "Finalizer") = 1
              /\ Len(s.finalizerArgs) = 1
              /\ s.finalizerArgs[1].err = s.ret.err
              /\ s.finalizerArgs[1].statusCode = s.resp.StatusCode
              /\ (s.buildErr = NoErr /\ s.doErr = NoErr /\ s.decErr = NoErr) =>
                    s.finalizerArgs[1].err = NoErr

C9_Witness ==
    \E c \in CallIds :
        /\ client[c].pc = "done" /\ "Finalizer" \in cconf.hooks
        /\ client[c].decErr # NoErr
        /\ client[c].resp.StatusCode = 404

\* C10: when the transport's Do fails, the decoder and the ResponseReceived and
\* ResponseDecoded hooks are not invoked, the caller gets that error, and the
\* Finalizer, if registered, gets status 0 and that error.
C10_TransportFailure ==
    \A c \in CallIds :
        LET s == client[c]
        IN  s.doErr # NoErr =>
              /\ Count(s.log, "decoder") = 0
              /\ Count(s.log, "ResponseReceived") = 0
              /\ Count(s.log, "ResponseDecoded") = 0
              /\ s.ret.returned /\ s.ret.err = s.doErr
              /\ (s.pc = "done" /\ "Finalizer" \in cconf.hooks) =>
                    /\ Len(s.finalizerArgs) = 1
                    /\ s.finalizerArgs[1].statusCode = 0
                    /\ s.finalizerArgs[1].err = s.doErr

C10_Witness ==
    \E c \in CallIds :
        /\ client[c].pc = "done" /\ client[c].doErr # NoErr
        /\ cconf.hooks = ClientHooks

\* the position of the first occurrence of name in log, 0 when there is none
IndexOf(log, name) ==
    IF \E i \in DOMAIN log : log[i] = name
    THEN CHOOSE i \in DOMAIN log : log[i] = name /\ \A j \in 1..(i - 1) : log[j] # name
    ELSE 0

\* C11: when building the request fails, the error is returned at once and
\* RequestPrepared, BeforeSendRequest, Do, ResponseReceived, the decoder,
\* ResponseDecoded and OnError do not run; the Finalizer, if registered, gets
\* status 0 and that error; a failure of the request encoder of a client built
\* by NewClient matches ErrEncodeRequest and wraps the encoder's error.
C11_BuildFailure ==
    \A c \in CallIds :
        LET s == client[c]
        IN  s.buildErr # NoErr =>
              /\ \A n \in { "RequestPrepared", "BeforeSendRequest", "Do",
                            "ResponseReceived", "decoder", "ResponseDecoded", "OnError" } :
                    Count(s.log, n) = 0
              /\ s.ret.returned /\ s.ret.err = s.buildErr /\ s.ret.value = Zero
              /\ (s.pc = "done" /\ "Finalizer" \in cconf.hooks) =>
                    /\ Len(s.finalizerArgs) = 1
                    /\ s.finalizerArgs[1].statusCode = 0
                    /\ s.finalizerArgs[1].err = s.buildErr
              /\ cconf.builder = "makeCreateRequest" =>
                    /\ Is(s.buildErr, ErrEncodeRequest)
                    /\ SubSeq(s.buildErr, 2, Len(s.buildErr)) \in EncodeRequestCauses

C11_Witness ==
    \E c \in CallIds :
        /\ client[c].pc = "done" /\ client[c].buildErr # NoErr
        /\ cconf.builder = "makeCreateRequest"
        /\ cconf.hooks = ClientHooks

\* C12: when the response decoder fails, the error returned matches
\* ErrDecodeResponse and wraps the decoder's error; OnError, if registered, is
\* invoked once with that error before the deferred calls run; ResponseDecoded
\* is not invoked; the Finalizer gets the status code of the response received.
C12_DecodeResponseFailure ==
    \A c \in CallIds :
        LET s == client[c]
        IN  s.decErr # NoErr =>
              /\ s.ret.returned
              /\ Is(s.ret.err, ErrDecodeResponse)
              /\ Len(s.ret.err) = Len(s.decErr) + 1
              /\ SubSeq(s.ret.err, 2, Len(s.ret.err)) = s.decErr
              /\ IF "OnError" \in cconf.hooks
                 THEN /\ s.onErrorArgs = <<s.ret.err>>
                      /\ Count(s.log, "OnError") = 1
                      /\ Count(s.log, "Finalizer") = 1 =>
                            IndexOf(s.log, "OnError") < IndexOf(s.log, "Finalizer")
                      /\ Count(s.log, "cancel") = 1 =>
                            IndexOf(s.log, "OnError") < IndexOf(s.log, "cancel")
                 ELSE s.onErrorArgs = <<>> /\ Count(s.log, "OnError") = 0
              /\ Count(s.log, "ResponseDecoded") = 0
              /\ (s.pc = "done" /\ "Finalizer" \in cconf.hooks) =>
                    /\ Len(s.finalizerArgs) = 1
                    /\ s.finalizerArgs[1].statusCode = s.resp.StatusCode
                    /\ s.finalizerArgs[1].err = s.ret.err

C12_Witness ==
    \E c \in CallIds :
        /\ client[c].pc = "done" /\ client[c].decErr # NoErr
        /\ cconf.hooks = ClientHooks
        /\ client[c].resp.StatusCode = 200

\* C13: DecodeJSONResponse answers a status outside 200..299 with the zero value
\* and an HttpError holding the response's status, header set and whole body,
\* without giving the body to the JSON decoder; for a status within 200..299 it
\* returns no HttpError.
C13_DecodeJSONResponse ==
    \A c \in CallIds :
        LET s == client[c]
        IN  (cconf.decoder = "DecodeJSONResponse" /\ Count(s.log, "decoder") = 1) =>
              IF s.resp.StatusCode < 200 \/ s.resp.StatusCode > 299
              THEN /\ s.decValue = Zero
                   /\ s.decErr = <<HttpError>>
                   /\ s.decHttpErr.Status = s.resp.StatusCode
                   /\ s.decHttpErr.Header = s.resp.Header
                   /\ s.decHttpErr.Body = s.resp.Body
                   /\ ~s.decUnmarshalled
              ELSE /\ ~Is(s.decErr, HttpError)
                   /\ s.decHttpErr = NoHttpError

C13_Witness ==
    \E c \in CallIds :
        /\ cconf.decoder = "DecodeJSONResponse"
        /\ client[c].pc = "done"
        /\ client[c].resp.StatusCode = 404
        /\ client[c].resp.Body = "{\"err\":\"missing\"}"
        /\ client[c].decErr = <<HttpError>>

\* C14: the error a client call returns for a non-success remote status is an
\* HttpError that matches none of the four sentinels.
C14_RemoteStatusNotSentinel ==
    \A c \in CallIds :
        LET s == client[c]
        IN  (s.ret.returned /\ Is(s.decErr, HttpError)) =>
              /\ Is(s.ret.err, HttpError)
              /\ \A sentinel \in Sentinels : ~Is(s.ret.err, sentinel)

\* C15: the OnError hook, when registered, is invoked with the error when the
\* transport's Do fails.
C15_OnErrorOnTransportFailure ==
    \A c \in CallIds :
        LET s == client[c]
        IN  (s.doErr # NoErr /\ s.ret.returned /\ "OnError" \in cconf.hooks) =>
              /\ Count(s.log, "OnError") = 1
              /\ s.onErrorArgs = <<s.doErr>>

\* C16: in every interleaving of concurrent calls, a step of one call leaves
\* the other calls' state and the pipeline's configuration as they were, and
\* the Finalizer of a call gets that call's own status and error.
C16_CallsIsolated ==
    [][ /\ sconf' = sconf
        /\ cconf' = cconf
        /\ \A c \in CallIds :
              (server'[c] # server[c] \/ client'[c] # client[c]) =>
                 \A d \in CallIds \ {c} : server'[d] = server[d] /\ client'[d] = client[d]
        /\ \A c \in CallIds :
              (server[c].pc = "return" /\ server'[c].pc = "done") =>
                 server'[c].finalizerArgs = <<server[c].w.rw.code>>
        /\ \A c \in CallIds :
              (client[c].pc = "return" /\ client'[c].pc = "done") =>
                 /\ Len(client'[c].finalizerArgs) = 1
                 /\ client'[c].finalizerArgs[1].statusCode = client[c].resp.StatusCode
                 /\ client'[c].finalizerArgs[1].err = client[c].ret.err
      ]_vars

C16_Witness ==
    /\ client[1].pc = "return" /\ client[2].pc = "done"
    /\ client[1].resp.StatusCode = 404 /\ client[2].resp.StatusCode = 0
    /\ client[1].ret.err # client[2].ret.err
    /\ client[2].finalizerArgs[1].statusCode = 0

RECURSIVE SumN(_)
SumN(calls) == IF calls = <<>> THEN 0 ELSE calls[1].n + SumN(Tail(calls))

IsWrite(call) == call.op = "Write"

IsWriteHeader(call) == call.op = "WriteHeader"

IsCapabilityCall(call) == call.op \in { "Hijack", "Flush", "Push" }

CapabilityOf(op) ==
    CASE op = "Hijack" -> "Hijacker"
      [] op = "Flush" -> "Flusher"
      [] op = "Push" -> "Pusher"

\* C17: after any sequence of calls on a decorator, its code is the argument of
\* the latest WriteHeader (200 when there was none), its written count is the
\* sum of the counts the sink's Write returned, and the sink received each Write
\* and each WriteHeader once, with its argument, in order.
C17_DecoratorRecords ==
    LET writes == SelectSeq(writer.history, IsWrite)
        headers == SelectSeq(writer.history, IsWriteHeader)
    IN  /\ writer.w.rw.code =
              IF headers = <<>> THEN 200 ELSE headers[Len(headers)].statusCode
        /\ writer.w.rw.written = SumN(writes)
        /\ writer.w.sink.writes = [ i \in DOMAIN writes |-> writes[i].bytes ]
        /\ writer.w.sink.headerCalls = [ i \in DOMAIN headers |-> headers[i].statusCode ]

C17_Witness ==
    /\ Len(writer.history) = 3
    /\ writer.history[1].op = "WriteHeader" /\ writer.history[1].statusCode = 404
    /\ writer.history[2].op = "Write" /\ writer.history[2].n = 1
    /\ Len(writer.history[2].bytes) = 2
    /\ writer.history[3].op = "WriteHeader" /\ writer.history[3].statusCode = 500

\* C18 as claimed: each of Hijack, Flush and Push goes on to the sink exactly
\* when the sink has the capability, and otherwise tells the caller that it is
\* not supported and leaves the sink alone.
C18_UnsupportedIsSignalled ==
    /\ \A i \in DOMAIN writer.history :
          LET call == writer.history[i]
          IN  IsCapabilityCall(call) =>
                /\ call.forwarded <=> CapabilityOf(call.op) \in writer.caps
                /\ ~call.forwarded => call.err # NoErr
    /\ Len(writer.capCalls) =
          Cardinality({ i \in DOMAIN writer.history :
                          /\ IsCapabilityCall(writer.history[i])
                          /\ CapabilityOf(writer.history[i].op) \in writer.caps })

\* C18 amended: each of Hijack, Flush and Push goes on to the sink exactly when
\* the sink has the capability; otherwise the sink is left alone, Hijack and
\* Push return a not-supported error, and Flush returns nothing.
C18_CapabilitiesForwarded ==
    /\ \A i \in DOMAIN writer.history :
          LET call == writer.history[i]
          IN  IsCapabilityCall(call) =>
                /\ call.forwarded <=> CapabilityOf(call.op) \in writer.caps
                /\ (~call.forwarded /\ call.op = "Hijack") => call.err = ErrHijackNotSupported
                /\ (~call.forwarded /\ call.op = "Push") => call.err = ErrNotSupported
                /\ call.op = "Flush" => call.err = NoErr
    /\ writer.capCalls =
          LET made == SelectSeq(writer.history, IsCapabilityCall)
              reached(call) == CapabilityOf(call.op) \in writer.caps
              kept == SelectSeq(made, reached)
          IN  [ i \in DOMAIN kept |-> kept[i].op ]
    /\ Len(writer.w.sink.writes) = Len(SelectSeq(writer.history, IsWrite))
    /\ Len(writer.w.sink.headerCalls) = Len(SelectSeq(writer.history, IsWriteHeader))

C18_Witness ==
    /\ writer.caps = { "Flusher" }
    /\ Len(writer.history) = 3
    /\ writer.history[1].op = "Push" /\ ~writer.history[1].forwarded
    /\ writer.history[2].op = "Flush" /\ writer.history[2].forwarded
    /\ writer.history[3].op = "Hijack" /\ ~writer.history[3].forwarded

C20_RoundTrip ==
    \A c \in CallIds :
        LET s == server[c]
        IN  (sconf.endpoint = "identity" /\ ~sconf.validator
               /\ Count(s.log, "encoder") = 1) =>
              /\ s.req \in Reqs
              /\ s.response = s.req
              /\ s.encoded = s.req
              /\ s.encErr = NoErr =>
                    /\ Len(s.w.sink.writes) = 1
                    /\ LastDocument(s) = s.req

C20_Witness ==
    \E c \in CallIds :
        /\ sconf.endpoint = "identity" /\ ~sconf.validator
        /\ sconf.hooks = ServerHooks
        /\ sconf.encoder = "EncodeJSONResponse"
        /\ server[c].pc = "done"
        /\ server[c].req = "r2"
        /\ server[c].encErr = NoErr
        /\ Count(server[c].log, "encoder") = 1

\* C21: every client call runs under its own cancelable child of the caller's
\* context, which is not cancelled while the call runs and is cancelled exactly
\* once when the call has returned, whether the request builder, the transport
\* or the decoder failed or the call succeeded.
C21_ChildContextCancelledOnce ==
    \A c \in CallIds :
        LET s == client[c]
        IN  /\ s.pc \notin { "idle" } =>
                  /\ Len(s.ctx) >= 2
                  /\ s.ctx[1] = "parent" /\ s.ctx[2] = "WithCancel"
            /\ s.pc \notin { "idle", "done" } =>
                  /\ s.cancels = 0
                  /\ Count(s.log, "cancel") = 0
            /\ s.pc = "done" =>
                  /\ s.ret.returned
                  /\ s.cancels = 1
                  /\ Count(s.log, "cancel") = 1

C21_Witness ==
    \E c \in CallIds :
        /\ client[c].pc = "done"
        /\ client[c].buildErr # NoErr
        /\ client[c].cancels = 1

\* the stages of a call in the order they ran, without the closing cancel
StagesSeen(s) == [ i \in DOMAIN s.seen |-> s.seen[i].stage ]

\* C22: a successful call on a client with all hooks runs BeforePrepareRequest,
\* the request builder, RequestPrepared, BeforeSendRequest, Do,
\* ResponseReceived, the decoder, ResponseDecoded and the Finalizer in that
\* order, once each and without OnError; the stages after RequestPrepared are
\* given the context it returned, and those after ResponseReceived the context
\* that one returned.
C22_ClientHookOrder ==
    \A c \in CallIds :
        LET s == client[c]
            child == << "parent", "WithCancel" >>
            prepared == Append(child, "RequestPrepared")
            received == Append(prepared, "ResponseReceived")
        IN  (s.pc = "done" /\ s.ret.err = NoErr /\ cconf.hooks = ClientHooks) =>
              /\ s.log = << "BeforePrepareRequest", "reqBuilder", "RequestPrepared",
                            "BeforeSendRequest", "Do", "ResponseReceived", "decoder",
                            "ResponseDecoded", "Finalizer", "cancel" >>
              /\ s.onErrorArgs = <<>>
              /\ StagesSeen(s) = SubSeq(s.log, 1, 9)
              /\ \A i \in 1..3 : s.seen[i].ctx = child
              /\ \A i \in 4..6 : s.seen[i].ctx = prepared
              /\ \A i \in 7..9 : s.seen[i].ctx = received

C22_Witness ==
    \E c \in CallIds :
        /\ client[c].pc = "done"
        /\ client[c].ret.err = NoErr
        /\ cconf.hooks = ClientHooks
        /\ cconf.decoder = "DecodeJSONResponse"
        /\ Len(client[c].seen) = 9

\* C24: on every exit path of a client call the Finalizer, when registered, is
\* the last thing to run before cancel: it is given a context the pipeline has
\* not yet cancelled, and nothing runs between it and the cancel.
C24_FinalizerBeforeCancel ==
    \A c \in CallIds :
        LET s == client[c]
            n == Len(s.log)
        IN  (s.pc = "done" /\ "Finalizer" \in cconf.hooks) =>
              /\ n >= 3
              /\ s.log[n] = "cancel"
              /\ s.log[n - 1] = "Finalizer"
              /\ s.log[n - 2] \notin { "Finalizer", "cancel" }
              /\ Len(s.finalizerArgs) = 1
              /\ ~s.finalizerArgs[1].cancelled
              /\ s.finalizerArgs[1].ctx = s.ctx

C24_Witness ==
    \E c \in CallIds :
        /\ client[c].pc = "done"
        /\ "Finalizer" \in cconf.hooks
        /\ client[c].doErr # NoErr
        /\ client[c].log[Len(client[c].log)] = "cancel"

IsStage(name) == name \in { "decoder", "validator", "endpoint", "encoder", "errorHandler" }

\* ServeHTTP with every hook slot holding a hook that does nothing, run on the
\* outcomes the stages of call s had: the stages it runs, and the writer, behind
\* the decorator that a Finalizer brings, after them
AllHooksRun(s) ==
    LET w0 == [ sink |-> NewSink, rw |-> NewResponseWriter ]
        pre == IF sconf.validator THEN << "decoder", "validator" >> ELSE << "decoder" >>
    IN  IF s.decErr # NoErr
        THEN [ stages |-> << "decoder", "errorHandler" >>,
               w |-> errorHandler(w0, decodeErr(s.decErr)) ]
        ELSE IF sconf.validator /\ ~s.ok
        THEN [ stages |-> pre,
               w |-> WriteValidationFailure(w0, s.path, s.violations) ]
        ELSE IF s.epErr # NoErr
        THEN [ stages |-> pre \o << "endpoint", "errorHandler" >>,
               w |-> errorHandler(w0, endpointErr(s.epErr)) ]
        ELSE IF s.encErr # NoErr
        THEN [ stages |-> pre \o << "endpoint", "encoder", "errorHandler" >>,
               w |-> errorHandler(encoder(w0, s.response, s.encErr), encodeErr(s.encErr)) ]
        ELSE [ stages |-> pre \o << "endpoint", "encoder" >>,
               w |-> encoder(w0, s.response, NoErr) ]

\* C23: whatever subset of the server hooks is registered, a finished call ran
\* the stages, and left the sink with the response, that the same outcomes give
\* with every hook registered as a no-op; without a validator BeforeValidation
\* and RequestValidated are never called, and the endpoint is called once after
\* every successful decode.
C23_AbsentHooksSkipped ==
    \A c \in CallIds :
        LET s == server[c]
        IN  /\ s.pc = "done" =>
                  /\ SelectSeq(s.log, IsStage) = AllHooksRun(s).stages
                  /\ s.w.sink = SinkFinish(AllHooksRun(s).w.sink)
                  /\ \A i \in DOMAIN s.log : IsStage(s.log[i]) \/ s.log[i] \in sconf.hooks
            /\ ~sconf.validator =>
                  /\ Count(s.log, "BeforeValidation") = 0
                  /\ Count(s.log, "RequestValidated") = 0
                  /\ Count(s.log, "validator") = 0
                  /\ (s.pc = "done" /\ s.decErr = NoErr) => Count(s.log, "endpoint") = 1

C23_Witness ==
    \E c \in CallIds :
        /\ server[c].pc = "done"
        /\ ~sconf.validator
        /\ sconf.hooks = { "BeforeValidation", "RequestValidated", "AfterEndpoint" }
        /\ server[c].encErr # NoErr
        /\ sconf.encoder = "EncodeJSONResponse"

\* C25: a client call that returns an error returns the zero value of the
\* response type with it, after a failed build, a failed Do and a failed decode
\* alike, also when the decoder gave a partly filled value with its error; a
\* call that returns no error returns the value the decoder produced, and it
\* returns no error only when the builder, Do and the decoder all succeeded.
C25_ZeroValueOnError ==
    \A c \in CallIds :
        LET s == client[c]
        IN  s.ret.returned =>
              /\ s.ret.err # NoErr => s.ret.value = Zero
              /\ s.ret.err = NoErr =>
                    /\ Count(s.log, "decoder") = 1
                    /\ s.ret.value = s.decValue
              /\ s.ret.err = NoErr <=>
                    (s.buildErr = NoErr /\ s.doErr = NoErr /\ s.decErr = NoErr)

C25_Witness ==
    \E c \in CallIds :
        /\ client[c].pc = "done"
        /\ cconf.decoder = "DecodeJSONResponse"
        /\ client[c].decErr # NoErr
        /\ client[c].decValue = Partial
        /\ client[c].ret.value = Zero

====
